---- MODULE Spec2Model ----
(***************************************************************************)
(* A model of FruitNinja.c: the three game states, the fruit and particle  *)
(* pools with their wrapping write cursors, the spawner, the per-frame     *)
(* fruit scan (fall out / slash / move) and the scoring.                   *)
(*                                                                         *)
(* Units.  Time is counted in ticks of 1/TicksPerSecond s, so that 0.1 s,  *)
(* 1 s and 30 s are whole numbers of ticks.  Lengths are counted in        *)
(* sub-pixels of 1/Sub pixel, so that the per-frame gravity of 10/60       *)
(* pixel is one sub-pixel.  Floating point rounding is not modelled.       *)
(*                                                                         *)
(* One call of Update() is split at the places where the claims look at    *)
(* the program in mid-frame: pc names the place the frame has reached.     *)
(*   "update"  between two frames, Update() is about to run                *)
(*   "trail"   UpdatePlayState before "if (slashing)"        (line 291)    *)
(*   "age"     before the particle loop                      (line 298)    *)
(*   "spawn"   before the spawn test                         (line 309)    *)
(*   "scan"    in the fruit loop, at index scanIndex         (line 315)    *)
(* spawnValue is SpawnFruit's local of that name: the last spawn draw.     *)
(* frame counts the frames of the run that are counted against its bound.  *)
(***************************************************************************)
EXTENDS Integers, Sequences, FiniteSets, TLC

\* ------------------------------------------------------------ constants

MAX_FRUIT_COUNT == 48
MAX_PARTICLE_COUNT == 16

startState == "startState"
playState == "playState"
loseState == "loseState"
GameState == {startState, playState, loseState}

appleType == "appleType"
bananaType == "bananaType"
cherryType == "cherryType"
donutType == "donutType"
FruitType == {appleType, bananaType, cherryType, donutType}

screenWidth == 960
screenHeight == 540
targetFPS == 60
appleScore == 1
bananaScore == appleScore * 3
cherryScore == bananaScore * 3
fruitRadius == 32
appleSpawnCeiling == 50
bananaSpawnCeiling == 75
cherrySpawnCeiling == 85
donutSpawnCeiling == 100
minimumFruitThrust == 5
maximumFruitThrust == 20
minimumFruitStrafe == -5
maximumFruitStrafe == 5

\* Ticks in a second: a frame at the target rate lasts one tick.  Sub-pixels
\* in a pixel: gravity, 10 / targetFPS pixel, is one sub-pixel.
TicksPerSecond == targetFPS
Sub == targetFPS \div 10

\* minimumSpawnRate = 1 s, maximumSpawnRate = 0.1 s, particleMaximumElapsed
\* = 0.1 s, in ticks; maximumElapsed = 30, the divisor of totalElapsed.
minimumSpawnRate == TicksPerSecond
maximumSpawnRate == TicksPerSecond \div 10
maximumElapsed == 30
particleMaximumElapsed == TicksPerSecond \div 10
\* gravity = -10.0 / targetFPS pixel per frame, in sub-pixels.
gravity == -((10 * Sub) \div targetFPS)

\* ------------------------------------------------------------ bounds

\* Update() calls in a run (those on the start or lose screen without a
\* button press, which change nothing, are not counted), and the ticks a Play
\* session may last.
MaxFrames == 8
MaxTotal == 122
\* Update() calls in a long run.
MaxLongFrames == 86
\* Update() calls in a run over all spawn draws.
MaxDrawFrames == 2
\* Update() calls in a run over the extremes of the spawn ranges.
MaxSpawnFrames == 3
\* Update() calls in a run that slashes through several fruits at once.
MaxSlashFrames == 5
\* Update() calls in a run that fills the fruit pool.
MaxFullFrames == 52
\* Update() calls in a run through the whole flight of the strongest throw.
MaxLiveFrames == 304
\* Update() calls in a run at the target frame rate, and those of them
\* before the button is touched in Play.
MaxFallFrames == 123
QuietFallFrames == 114
\* Update() calls and ticks of Play in a run along the spawn-rate ramp.
MaxRampFrames == 6
MaxRampTotal == 1900

\* ------------------------------------------------------------ state

VARIABLES
    state, fruits, particles, nextFruitIndex, nextParticleIndex,
    score, fruitsSlashed, spawnElapsed, totalElapsed, slashing,
    pc, scanIndex, frameTime, mouseDown, mousePosition, spawnValue, frame

progVars == <<state, fruits, particles, nextFruitIndex, nextParticleIndex,
              score, fruitsSlashed, spawnElapsed, totalElapsed, slashing>>
vars == <<state, fruits, particles, nextFruitIndex, nextParticleIndex,
          score, fruitsSlashed, spawnElapsed, totalElapsed, slashing,
          pc, scanIndex, frameTime, mouseDown, mousePosition, spawnValue, frame>>

FruitSlots == 0 .. (MAX_FRUIT_COUNT - 1)
ParticleSlots == 0 .. (MAX_PARTICLE_COUNT - 1)

Vector2(x, y) == [x |-> x, y |-> y]

\* Static storage is zero-initialised: type 0 is appleType, vectors are 0.
Init ==
    /\ state = startState
    /\ fruits = [i \in FruitSlots |->
                    [type |-> appleType, position |-> Vector2(0, 0),
                     velocity |-> Vector2(0, 0), enabled |-> FALSE]]
    /\ particles = [i \in ParticleSlots |->
                    [position |-> Vector2(0, 0), elapsed |-> 0, enabled |-> FALSE]]
    /\ nextFruitIndex = 0
    /\ nextParticleIndex = 0
    /\ score = 0
    /\ fruitsSlashed = 0
    /\ spawnElapsed = 0
    /\ totalElapsed = 0
    /\ slashing = FALSE
    /\ pc = "update"
    /\ scanIndex = 0
    /\ frameTime = 0
    /\ mouseDown = FALSE
    /\ mousePosition = Vector2(0, 0)
    /\ spawnValue = 0
    /\ frame = 0

\* ------------------------------------------------------------ environment

\* What one run may feed the program: the frame times GetFrameTime() returns
\* (ticks), the button levels the mouse reports, the pointer positions
\* (pixels), and the values GetRandomValue() returns for the spawn draw, the
\* horizontal position, the strafe and the thrust; and where the run is cut
\* off.  In a Play frame among the first quietFrames frames of the run the
\* button is up.  The pointer (512, 540) lies on the collision circle of a fruit just
\* spawned at x = 480 and inside it while the fruit rises; (100, 100) is
\* far from every fruit.
MainEnv ==
    [frameTimes |-> {1, 60},
     buttons |-> BOOLEAN,
     pointers |-> {Vector2(512, 540), Vector2(100, 100)},
     spawnValues |-> {50, 75, 85, 100},
     spawnXs |-> {480},
     strafes |-> {0},
     thrusts |-> {5},
     quietFrames |-> 0,
     maxFrames |-> MaxFrames,
     maxTotal |-> MaxTotal]

\* A long run at three frames a second: a fruit is spawned every third,
\* then every second, then every frame; each rises and falls back below the
\* bottom edge 62 frames later; the spawn threshold reaches its floor and
\* both cursors wrap.  The pointer (512, 605) is below the screen, inside
\* the circle of a fruit that has fallen out and outside the circle of
\* every fruit still on screen.
LongEnv ==
    [frameTimes |-> {20},
     buttons |-> BOOLEAN,
     pointers |-> {Vector2(512, 605)},
     spawnValues |-> {50},
     spawnXs |-> {480},
     strafes |-> {0},
     thrusts |-> {5},
     quietFrames |-> 0,
     maxFrames |-> MaxLongFrames,
     maxTotal |-> MaxLongFrames * 20]

\* Every spawn draw: one fruit is spawned in the first Play frame.
DrawEnv ==
    [frameTimes |-> {60},
     buttons |-> BOOLEAN,
     pointers |-> {Vector2(100, 100)},
     spawnValues |-> 1 .. 100,
     spawnXs |-> {480},
     strafes |-> {0},
     thrusts |-> {5},
     quietFrames |-> 0,
     maxFrames |-> MaxDrawFrames,
     maxTotal |-> MaxDrawFrames * 60]

\* The spawn ranges: a fruit in every Play frame, with the extremes of the
\* horizontal position, the strafe and the thrust on offer, and the values
\* just outside them.
SpawnEnv ==
    [frameTimes |-> {60},
     buttons |-> BOOLEAN,
     pointers |-> {Vector2(100, 100)},
     spawnValues |-> {50, 100},
     spawnXs |-> {239, 240, 720, 721},
     strafes |-> {-6, -5, 5, 6},
     thrusts |-> {4, 5, 20, 21},
     quietFrames |-> 0,
     maxFrames |-> MaxSpawnFrames,
     maxTotal |-> MaxSpawnFrames * 60]

\* Several fruits under the pointer: frames of one second and one stall of
\* 1700 ticks, so a fruit of any type is spawned in every Play frame, at
\* x = 480 with the weakest thrust; the pointer at (512, 540) is inside the
\* circle of such a fruit during its first frames.
SlashEnv ==
    [frameTimes |-> {60, 1700},
     buttons |-> BOOLEAN,
     pointers |-> {Vector2(512, 540)},
     spawnValues |-> {50, 75, 85, 100},
     spawnXs |-> {480},
     strafes |-> {0},
     thrusts |-> {5},
     quietFrames |-> 0,
     maxFrames |-> MaxSlashFrames,
     maxTotal |-> MaxSlashFrames * 60 + 1700]

\* A full pool: frames of one second, so a fruit is spawned in every Play
\* frame, always with the weakest thrust and no strafe; such a fruit stays on
\* screen for 62 frames, and the pointer is never near one.  The 49th spawn
\* finds all 48 slots enabled.
FullEnv ==
    [frameTimes |-> {60},
     buttons |-> BOOLEAN,
     pointers |-> {Vector2(100, 100)},
     spawnValues |-> {50},
     spawnXs |-> {480},
     strafes |-> {0},
     thrusts |-> {5},
     quietFrames |-> 0,
     maxFrames |-> MaxFullFrames,
     maxTotal |-> MaxFullFrames * 60]

\* A run at the target frame rate, one tick a frame: the first fruit is
\* spawned in Play frame 59, the second in Play frame 116, and the first
\* falls out in Play frame 121.  The player waits and then slashes freely
\* with the pointer at (540, 572): it is inside the circle of a fruit at
\* x = 480 whose height is within 15 pixels of 540, on or below the screen.
FallEnv ==
    [frameTimes |-> {1},
     buttons |-> BOOLEAN,
     pointers |-> {Vector2(540, 572)},
     spawnValues |-> {50},
     spawnXs |-> {480},
     strafes |-> {0},
     thrusts |-> {5},
     quietFrames |-> QuietFallFrames,
     maxFrames |-> MaxFallFrames,
     maxTotal |-> MaxFallFrames]

\* Whole flights: a run at the target frame rate in which the button stays
\* up during Play and every fruit is thrown from the right edge of the spawn
\* range with the strongest strafe to the right and the strongest thrust:
\* it rises far above the top of the screen and leaves the screen to the
\* right before it comes down.
LiveEnv ==
    [frameTimes |-> {1},
     buttons |-> BOOLEAN,
     pointers |-> {Vector2(100, 100)},
     spawnValues |-> {50},
     spawnXs |-> {720},
     strafes |-> {5},
     thrusts |-> {20},
     quietFrames |-> MaxLiveFrames,
     maxFrames |-> MaxLiveFrames,
     maxTotal |-> MaxLiveFrames]

\* The spawn-rate ramp: short frames (5 ticks), one-second frames, and a
\* stall of 1700 ticks that takes totalElapsed past the 27 s where the
\* threshold reaches its floor.
RampEnv ==
    [frameTimes |-> {5, 60, 1700},
     buttons |-> BOOLEAN,
     pointers |-> {Vector2(100, 100)},
     spawnValues |-> {50},
     spawnXs |-> {480},
     strafes |-> {0},
     thrusts |-> {5},
     quietFrames |-> 0,
     maxFrames |-> MaxRampFrames,
     maxTotal |-> MaxRampTotal]

\* Mutant: the button counts as pressed in every frame in which it is down.
IsMouseButtonPressed_WhileDown(down) == down

\* raylib: pressed = down now and up in the previous frame; released = up
\* now and down in the previous frame.
IsMouseButtonPressed(down) == down /\ ~mouseDown
IsMouseButtonReleased(down) == ~down /\ mouseDown

\* raylib: the point is within radius of the centre (border included),
\* compared on the squares of the distances.
CheckCollisionPointCircle(point, center, radius) ==
    (point.x - center.x) * (point.x - center.x)
        + (point.y - center.y) * (point.y - center.y) <= radius * radius

\* ------------------------------------------------------------ transitions

\* Mutant: entering Play also arms the slash.
FromStartToPlayState_ArmsSlash ==
    /\ state' = playState
    /\ slashing' = TRUE
    /\ UNCHANGED <<fruits, particles, nextFruitIndex, nextParticleIndex, score,
                   fruitsSlashed, spawnElapsed, totalElapsed>>

FromStartToPlayState ==
    /\ state' = playState
    /\ UNCHANGED <<fruits, particles, nextFruitIndex, nextParticleIndex, score,
                   fruitsSlashed, spawnElapsed, totalElapsed, slashing>>

\* Mutant: the slash stays on through the loss.
FromPlayToLoseState_KeepsSlashing(fs) ==
    /\ state' = loseState
    /\ fruits' = [i \in FruitSlots |-> [fs[i] EXCEPT !.enabled = FALSE]]
    /\ particles' = [i \in ParticleSlots |-> [particles[i] EXCEPT !.enabled = FALSE]]
    /\ spawnElapsed' = 0
    /\ totalElapsed' = 0
    /\ slashing' = slashing

\* Mutant: the fruit pool is left as it is.
FromPlayToLoseState_KeepsFruits(fs) ==
    /\ state' = loseState
    /\ fruits' = fs
    /\ particles' = [i \in ParticleSlots |-> [particles[i] EXCEPT !.enabled = FALSE]]
    /\ spawnElapsed' = 0
    /\ totalElapsed' = 0
    /\ slashing' = FALSE

\* Called from SlashFruit in mid-scan: fs is the pool with the slashed fruit
\* already disabled.
FromPlayToLoseState(fs) ==
    /\ state' = loseState
    /\ fruits' = [i \in FruitSlots |-> [fs[i] EXCEPT !.enabled = FALSE]]
    /\ particles' = [i \in ParticleSlots |-> [particles[i] EXCEPT !.enabled = FALSE]]
    /\ spawnElapsed' = 0
    /\ totalElapsed' = 0
    /\ slashing' = FALSE

\* Mutant: the score survives the return to Start.
FromLoseToStartState_KeepsScore ==
    /\ state' = startState
    /\ fruitsSlashed' = 0
    /\ UNCHANGED <<fruits, particles, nextFruitIndex, nextParticleIndex, score,
                   spawnElapsed, totalElapsed, slashing>>

FromLoseToStartState ==
    /\ state' = startState
    /\ fruitsSlashed' = 0
    /\ score' = 0
    /\ UNCHANGED <<fruits, particles, nextFruitIndex, nextParticleIndex,
                   spawnElapsed, totalElapsed, slashing>>

\* ------------------------------------------------------------ spawner

\* The else-if chain over the spawn ceilings; a value above every ceiling
\* leaves the slot's old type in place.
\* Mutant: the ceilings are compared with < instead of <=.
SpawnType_Strict(v, oldType) ==
    IF v < appleSpawnCeiling THEN appleType
    ELSE IF v < bananaSpawnCeiling THEN bananaType
    ELSE IF v < cherrySpawnCeiling THEN cherryType
    ELSE IF v < donutSpawnCeiling THEN donutType
    ELSE oldType

SpawnType(v, oldType) ==
    IF v <= appleSpawnCeiling THEN appleType
    ELSE IF v <= bananaSpawnCeiling THEN bananaType
    ELSE IF v <= cherrySpawnCeiling THEN cherryType
    ELSE IF v <= donutSpawnCeiling THEN donutType
    ELSE oldType

\* raylib: GetRandomValue(min, max) returns an integer of min..max; of the
\* values a run offers, those it can return.
GetRandomValue(min, max, offered) == {r \in offered : min <= r /\ r <= max}

\* Mutant: the cursor wraps to slot 1 instead of slot 0.
SpawnFruit_WrapToOne(E) ==
    \E v \in GetRandomValue(1, 100, E.spawnValues),
       x \in GetRandomValue(screenWidth \div 4, (3 * screenWidth) \div 4, E.spawnXs),
       strafe \in GetRandomValue(minimumFruitStrafe, maximumFruitStrafe, E.strafes),
       thrust \in GetRandomValue(minimumFruitThrust, maximumFruitThrust, E.thrusts) :
        /\ spawnValue' = v
        /\ fruits' = [fruits EXCEPT ![nextFruitIndex] =
                        [type |-> SpawnType(v, fruits[nextFruitIndex].type),
                         position |-> Vector2(x * Sub, screenHeight * Sub),
                         velocity |-> Vector2(strafe * Sub, (-thrust) * Sub),
                         enabled |-> TRUE]]
        /\ nextFruitIndex' = IF nextFruitIndex + 1 = MAX_FRUIT_COUNT
                             THEN 1 ELSE nextFruitIndex + 1

\* Mutant: the thrust is not negated, the fruit is thrown downwards.
SpawnFruit_ThrustDown(E) ==
    \E v \in GetRandomValue(1, 100, E.spawnValues),
       x \in GetRandomValue(screenWidth \div 4, (3 * screenWidth) \div 4, E.spawnXs),
       strafe \in GetRandomValue(minimumFruitStrafe, maximumFruitStrafe, E.strafes),
       thrust \in GetRandomValue(minimumFruitThrust, maximumFruitThrust, E.thrusts) :
        /\ spawnValue' = v
        /\ fruits' = [fruits EXCEPT ![nextFruitIndex] =
                        [type |-> SpawnType(v, fruits[nextFruitIndex].type),
                         position |-> Vector2(x * Sub, screenHeight * Sub),
                         velocity |-> Vector2(strafe * Sub, thrust * Sub),
                         enabled |-> TRUE]]
        /\ nextFruitIndex' = (nextFruitIndex + 1) % MAX_FRUIT_COUNT

SpawnFruit(E) ==
    \E v \in GetRandomValue(1, 100, E.spawnValues),
       x \in GetRandomValue(screenWidth \div 4, (3 * screenWidth) \div 4, E.spawnXs),
       strafe \in GetRandomValue(minimumFruitStrafe, maximumFruitStrafe, E.strafes),
       thrust \in GetRandomValue(minimumFruitThrust, maximumFruitThrust, E.thrusts) :
        /\ spawnValue' = v
        /\ fruits' = [fruits EXCEPT ![nextFruitIndex] =
                        [type |-> SpawnType(v, fruits[nextFruitIndex].type),
                         position |-> Vector2(x * Sub, screenHeight * Sub),
                         velocity |-> Vector2(strafe * Sub, (-thrust) * Sub),
                         enabled |-> TRUE]]
        /\ nextFruitIndex' = (nextFruitIndex + 1) % MAX_FRUIT_COUNT

\* spawnElapsedThreshold and the clamped threshold of the spawn test, both
\* multiplied by maximumElapsed to stay in whole ticks.
spawnElapsedThreshold(total) == minimumSpawnRate * maximumElapsed - total

\* Mutant: the threshold is not clamped to maximumSpawnRate.
EffectiveThreshold_NoFloor(total) == spawnElapsedThreshold(total)

EffectiveThreshold(total) ==
    IF spawnElapsedThreshold(total) < maximumSpawnRate * maximumElapsed
    THEN maximumSpawnRate * maximumElapsed
    ELSE spawnElapsedThreshold(total)

SpawnDue(elapsed, total) == elapsed * maximumElapsed > EffectiveThreshold(total)

\* ------------------------------------------------------------ scoring

\* Mutant: a cherry scores like a banana.
SlashScore_CherryAsBanana(type) ==
    IF type = appleType THEN appleScore ELSE bananaScore

SlashScore(type) ==
    IF type = appleType THEN appleScore
    ELSE IF type = bananaType THEN bananaScore
    ELSE cherryScore

\* Mutant: a slashed donut is counted in fruitsSlashed.
SlashFruit_DonutCounted(j) ==
    LET fs == [fruits EXCEPT ![j].enabled = FALSE]
        type == fruits[j].type
    IN  IF type \in {appleType, bananaType, cherryType}
        THEN /\ fruits' = fs
             /\ fruitsSlashed' = fruitsSlashed + 1
             /\ score' = score + SlashScore(type)
             /\ UNCHANGED <<state, particles, spawnElapsed, totalElapsed, slashing>>
        ELSE IF type = donutType
        THEN /\ FromPlayToLoseState(fs)
             /\ fruitsSlashed' = fruitsSlashed + 1
             /\ UNCHANGED score
        ELSE /\ fruits' = fs
             /\ UNCHANGED <<state, particles, spawnElapsed, totalElapsed, slashing,
                            score, fruitsSlashed>>

SlashFruit(j) ==
    LET fs == [fruits EXCEPT ![j].enabled = FALSE]
        type == fruits[j].type
    IN  IF type \in {appleType, bananaType, cherryType}
        THEN /\ fruits' = fs
             /\ fruitsSlashed' = fruitsSlashed + 1
             /\ score' = score + SlashScore(type)
             /\ UNCHANGED <<state, particles, spawnElapsed, totalElapsed, slashing>>
        ELSE IF type = donutType
        THEN /\ FromPlayToLoseState(fs)
             /\ UNCHANGED <<score, fruitsSlashed>>
        ELSE /\ fruits' = fs
             /\ UNCHANGED <<state, particles, spawnElapsed, totalElapsed, slashing,
                            score, fruitsSlashed>>

\* ------------------------------------------------------------ Update()

frameVars == <<pc, scanIndex, frameTime, mousePosition, spawnValue>>

UpdateStartState(down) ==
    IF IsMouseButtonPressed(down)
    THEN FromStartToPlayState
    ELSE UNCHANGED progVars

\* Mutant: a press on the lose screen starts the next game at once.
UpdateLoseState_StraightToPlay(down) ==
    IF IsMouseButtonPressed(down)
    THEN /\ state' = playState
         /\ fruitsSlashed' = 0
         /\ score' = 0
         /\ UNCHANGED <<fruits, particles, nextFruitIndex, nextParticleIndex,
                        spawnElapsed, totalElapsed, slashing>>
    ELSE UNCHANGED progVars

UpdateLoseState(down) ==
    IF IsMouseButtonPressed(down)
    THEN FromLoseToStartState
    ELSE UNCHANGED progVars

\* UpdatePlayState, lines 281-290: the two timers and the slashing flag.  The
\* pointer position of the frame is drawn here when the frame will read it
\* (GetMousePosition() is only called while slashing).
PlayTimers(E, down) ==
    \E dt \in E.frameTimes :
        LET sl == IF IsMouseButtonPressed(down) THEN TRUE
                  ELSE IF IsMouseButtonReleased(down) THEN FALSE
                  ELSE slashing
        IN  /\ totalElapsed + dt <= E.maxTotal
            /\ totalElapsed' = totalElapsed + dt
            /\ spawnElapsed' = spawnElapsed + dt
            /\ slashing' = sl
            /\ frameTime' = dt
            /\ \E p \in (IF sl THEN {Vector2(q.x * Sub, q.y * Sub) : q \in E.pointers}
                         ELSE {mousePosition}) : mousePosition' = p
            /\ pc' = "trail"
            /\ UNCHANGED <<state, fruits, particles, nextFruitIndex,
                           nextParticleIndex, score, fruitsSlashed, scanIndex, spawnValue>>

\* Update(): one frame begins; the state decides which update routine runs.
Update(E) ==
    /\ pc = "update"
    /\ frame < E.maxFrames
    /\ \E down \in (IF state = playState /\ frame < E.quietFrames
                     THEN {FALSE} ELSE E.buttons) :
        /\ mouseDown' = down
        /\ frame' = IF state = playState \/ IsMouseButtonPressed(down)
                    THEN frame + 1 ELSE frame
        /\ IF state = startState
           THEN UpdateStartState(down) /\ UNCHANGED frameVars
           ELSE IF state = playState
           THEN PlayTimers(E, down)
           ELSE UpdateLoseState(down) /\ UNCHANGED frameVars

\* Mutant: the particle cursor is not wrapped.
AppendParticle_NoWrap ==
    /\ particles' = [particles EXCEPT ![nextParticleIndex] =
                        [position |-> mousePosition, elapsed |-> 0, enabled |-> TRUE]]
    /\ nextParticleIndex' = nextParticleIndex + 1

\* UpdatePlayState, lines 291-297: the slash trail.
AppendParticle ==
    /\ particles' = [particles EXCEPT ![nextParticleIndex] =
                        [position |-> mousePosition, elapsed |-> 0, enabled |-> TRUE]]
    /\ nextParticleIndex' = (nextParticleIndex + 1) % MAX_PARTICLE_COUNT

\* Mutant: the trail follows the button level instead of the slashing flag.
PlayTrail_WhileDown ==
    /\ pc = "trail"
    /\ IF mouseDown THEN AppendParticle
                    ELSE UNCHANGED <<particles, nextParticleIndex>>
    /\ pc' = "age"
    /\ UNCHANGED <<state, fruits, nextFruitIndex, score, fruitsSlashed, spawnElapsed,
                   totalElapsed, slashing, scanIndex, frameTime, mouseDown,
                   mousePosition, spawnValue, frame>>

PlayTrail ==
    /\ pc = "trail"
    /\ IF slashing THEN AppendParticle
                   ELSE UNCHANGED <<particles, nextParticleIndex>>
    /\ pc' = "age"
    /\ UNCHANGED <<state, fruits, nextFruitIndex, score, fruitsSlashed, spawnElapsed,
                   totalElapsed, slashing, scanIndex, frameTime, mouseDown,
                   mousePosition, spawnValue, frame>>

\* Mutant: a particle is disabled on reaching particleMaximumElapsed.
AgeParticle_AtLimit(p, dt) ==
    IF p.enabled
    THEN [p EXCEPT !.elapsed = p.elapsed + dt,
                   !.enabled = ~(p.elapsed + dt >= particleMaximumElapsed)]
    ELSE p

\* UpdatePlayState, lines 298-308: every enabled particle ages by the frame
\* time and is disabled past particleMaximumElapsed.
AgeParticle(p, dt) ==
    IF p.enabled
    THEN [p EXCEPT !.elapsed = p.elapsed + dt,
                   !.enabled = ~(p.elapsed + dt > particleMaximumElapsed)]
    ELSE p

PlayAge ==
    /\ pc = "age"
    /\ particles' = [i \in ParticleSlots |-> AgeParticle(particles[i], frameTime)]
    /\ pc' = "spawn"
    /\ UNCHANGED <<state, fruits, nextFruitIndex, nextParticleIndex, score,
                   fruitsSlashed, spawnElapsed, totalElapsed, slashing, scanIndex,
                   frameTime, mouseDown, mousePosition, spawnValue, frame>>

\* Mutant: a spawn takes the threshold off spawnElapsed and keeps the rest.
PlaySpawn_KeepsSurplus(E) ==
    /\ pc = "spawn"
    /\ IF SpawnDue(spawnElapsed, totalElapsed)
       THEN /\ spawnElapsed' = spawnElapsed - EffectiveThreshold(totalElapsed) \div maximumElapsed
            /\ SpawnFruit(E)
       ELSE UNCHANGED <<spawnElapsed, fruits, nextFruitIndex, spawnValue>>
    /\ pc' = "scan"
    /\ scanIndex' = 0
    /\ UNCHANGED <<state, particles, nextParticleIndex, score, fruitsSlashed,
                   totalElapsed, slashing, frameTime, mouseDown, mousePosition, frame>>

\* UpdatePlayState, lines 309-314: the spawn test.
PlaySpawn(E) ==
    /\ pc = "spawn"
    /\ IF SpawnDue(spawnElapsed, totalElapsed)
       THEN spawnElapsed' = 0 /\ SpawnFruit(E)
       ELSE UNCHANGED <<spawnElapsed, fruits, nextFruitIndex, spawnValue>>
    /\ pc' = "scan"
    /\ scanIndex' = 0
    /\ UNCHANGED <<state, particles, nextParticleIndex, score, fruitsSlashed,
                   totalElapsed, slashing, frameTime, mouseDown, mousePosition, frame>>

\* UpdatePlayState, lines 315-334: the fruit loop.  Iterations over disabled
\* slots do nothing, so one step goes to the next enabled slot at or after
\* scanIndex and runs the loop body on it.
EnabledFrom(i) == {j \in FruitSlots : j >= i /\ fruits[j].enabled}

\* Mutant: the loop goes to the last enabled slot first.
NextEnabled_Last(i) == CHOOSE j \in EnabledFrom(i) : \A k \in EnabledFrom(i) : j >= k

NextEnabled(i) == CHOOSE j \in EnabledFrom(i) : \A k \in EnabledFrom(i) : j <= k

FruitCenter(f) ==
    Vector2(f.position.x + fruitRadius * Sub, f.position.y + fruitRadius * Sub)

\* Mutant: a moving fruit keeps its velocity.
MoveFruit_NoGravity(f) ==
    [f EXCEPT !.position = Vector2(f.position.x + f.velocity.x,
                                   f.position.y + f.velocity.y)]

\* Mutant: gravity is applied before the position is advanced.
MoveFruit_GravityFirst(f) ==
    [f EXCEPT !.position = Vector2(f.position.x + f.velocity.x,
                                   f.position.y + f.velocity.y - gravity),
              !.velocity = Vector2(f.velocity.x, f.velocity.y - gravity)]

\* UpdatePlayState, lines 329-331: the motion of a fruit.

MoveFruit(f) ==
    [f EXCEPT !.position = Vector2(f.position.x + f.velocity.x,
                                   f.position.y + f.velocity.y),
              !.velocity = Vector2(f.velocity.x, f.velocity.y - gravity)]

\* Mutant: the slash test comes before the bottom test.
ScanBody_SlashFirst(j) ==
    IF slashing /\ CheckCollisionPointCircle(mousePosition,
                            FruitCenter(fruits[j]), fruitRadius * Sub)
    THEN SlashFruit(j)
    ELSE IF fruits[j].position.y > screenHeight * Sub
    THEN /\ fruits' = [fruits EXCEPT ![j].enabled = FALSE]
         /\ UNCHANGED <<state, particles, score, fruitsSlashed, spawnElapsed,
                        totalElapsed, slashing>>
    ELSE /\ fruits' = [fruits EXCEPT ![j] = MoveFruit(fruits[j])]
         /\ UNCHANGED <<state, particles, score, fruitsSlashed, spawnElapsed,
                        totalElapsed, slashing>>

ScanBody(j) ==
    IF fruits[j].position.y > screenHeight * Sub
    THEN /\ fruits' = [fruits EXCEPT ![j].enabled = FALSE]
         /\ UNCHANGED <<state, particles, score, fruitsSlashed, spawnElapsed,
                        totalElapsed, slashing>>
    ELSE IF slashing /\ CheckCollisionPointCircle(mousePosition,
                            FruitCenter(fruits[j]), fruitRadius * Sub)
    THEN SlashFruit(j)
    ELSE /\ fruits' = [fruits EXCEPT ![j] = MoveFruit(fruits[j])]
         /\ UNCHANGED <<state, particles, score, fruitsSlashed, spawnElapsed,
                        totalElapsed, slashing>>

PlayScan ==
    /\ pc = "scan"
    /\ EnabledFrom(scanIndex) # {}
    /\ ScanBody(NextEnabled(scanIndex))
    /\ scanIndex' = NextEnabled(scanIndex) + 1
    /\ UNCHANGED <<nextFruitIndex, nextParticleIndex, pc, frameTime, mouseDown,
                   mousePosition, spawnValue, frame>>

\* The loop is over: UpdatePlayState and Update() return.
PlayDone ==
    /\ pc = "scan"
    /\ EnabledFrom(scanIndex) = {}
    /\ pc' = "update"
    /\ scanIndex' = 0
    /\ UNCHANGED <<progVars, frameTime, mouseDown, mousePosition, spawnValue, frame>>

Frame(E) ==
    \/ Update(E)
    \/ PlayTrail
    \/ PlayAge
    \/ PlaySpawn(E)
    \/ PlayScan
    \/ PlayDone

Next == Frame(MainEnv)

Spec == Init /\ [][Next]_vars

NextLong == Frame(LongEnv)

SpecLong == Init /\ [][NextLong]_vars

NextDraw == Frame(DrawEnv)

SpecDraw == Init /\ [][NextDraw]_vars

NextSpawn == Frame(SpawnEnv)

SpecSpawn == Init /\ [][NextSpawn]_vars

NextSlash == Frame(SlashEnv)

SpecSlash == Init /\ [][NextSlash]_vars

NextFull == Frame(FullEnv)

SpecFull == Init /\ [][NextFull]_vars

NextFall == Frame(FallEnv)

SpecFall == Init /\ [][NextFall]_vars

NextLive == Frame(LiveEnv)

\* main, lines 171-175: the loop calls Update() again and again while the
\* window is open, so a frame that can be taken is taken.
SpecLive == Init /\ [][NextLive]_vars /\ WF_vars(NextLive)

NextRamp == Frame(RampEnv)

SpecRamp == Init /\ [][NextRamp]_vars

\* ------------------------------------------------------------ claims

\* The fruit in slot j is the one the fruit loop handles next.
AtTurn(j) ==
    /\ pc = "scan"
    /\ j >= scanIndex
    /\ fruits[j].enabled
    /\ \A k \in FruitSlots : (scanIndex <= k /\ k < j) => ~fruits[k].enabled

\* The pointer is within 32 pixels of the fruit's position + (32, 32).
PointerInside(j) ==
    LET dx == mousePosition.x - (fruits[j].position.x + 32 * Sub)
        dy == mousePosition.y - (fruits[j].position.y + 32 * Sub)
    IN  dx * dx + dy * dy <= (32 * Sub) * (32 * Sub)

\* A slash hit: the fruit at its turn is on screen, the slash is active and
\* the pointer is inside the fruit's circle.
SlashHit(j) ==
    /\ AtTurn(j)
    /\ fruits[j].position.y <= 540 * Sub
    /\ slashing
    /\ PointerInside(j)

\* C1: the state changes only by Start -> Play on a button press in Start,
\* Play -> Lose on the slash of a donut, and Lose -> Start on a button press in
\* Lose; no other change of state happens.
C1_StateTransitions ==
    [][state' # state =>
        \/ /\ state = startState /\ state' = playState
           /\ pc = "update" /\ ~mouseDown /\ mouseDown'
        \/ /\ state = playState /\ state' = loseState
           /\ \E j \in FruitSlots :
                SlashHit(j) /\ fruits[j].type = donutType /\ ~fruits'[j].enabled
        \/ /\ state = loseState /\ state' = startState
           /\ pc = "update" /\ ~mouseDown /\ mouseDown']_vars

\* A game was played and lost, and the program is back on the start screen.
C1_Witness ==
    /\ state = startState
    /\ pc = "update"
    /\ nextFruitIndex > 0
    /\ \E j \in FruitSlots : fruits[j].type = donutType

\* C2: a slash hit disables the fruit; an apple, banana or cherry adds 1, 3 or
\* 9 to score and 1 to fruitsSlashed and leaves the state at Play; a donut
\* leaves both counters alone and makes the state Lose.
C2_SlashEffect ==
    [][\A j \in FruitSlots : SlashHit(j) =>
        /\ ~fruits'[j].enabled
        /\ fruits[j].type = appleType =>
             score' = score + 1 /\ fruitsSlashed' = fruitsSlashed + 1
                /\ state' = playState
        /\ fruits[j].type = bananaType =>
             score' = score + 3 /\ fruitsSlashed' = fruitsSlashed + 1
                /\ state' = playState
        /\ fruits[j].type = cherryType =>
             score' = score + 9 /\ fruitsSlashed' = fruitsSlashed + 1
                /\ state' = playState
        /\ fruits[j].type = donutType =>
             score' = score /\ fruitsSlashed' = fruitsSlashed
                /\ state' = loseState]_vars

\* A cherry and then a donut were slashed: the game is lost with the
\* cherry's 9 points.
C2_Witness ==
    /\ state = loseState
    /\ score = 9
    /\ fruitsSlashed = 1
    /\ fruits[0].type = cherryType
    /\ fruits[1].type = donutType

\* C3: when the fruit loop of a frame ends with the state at Lose (the frame
\* slashed a donut), no fruit and no particle is enabled, both timers are 0
\* and slashing is off.
C3_LoseFrameEnd ==
    [][(pc = "scan" /\ pc' = "update" /\ state' = loseState) =>
        /\ \A j \in FruitSlots : ~fruits'[j].enabled
        /\ \A k \in ParticleSlots : ~particles'[k].enabled
        /\ spawnElapsed' = 0
        /\ totalElapsed' = 0
        /\ slashing' = FALSE]_vars

\* The frame that lost the game has ended; the donut was in slot 0 with a
\* second fruit enabled behind it, and a trail particle was alive (aged 1
\* tick, less than the 6 it may reach) when the transition disabled it.
C3_Witness ==
    /\ state = loseState
    /\ pc = "update"
    /\ mouseDown
    /\ fruits[0].type = donutType
    /\ nextFruitIndex = 2
    /\ fruits[1].position.y < 540 * Sub
    /\ \E k \in ParticleSlots : particles[k].elapsed = 1 /\ ~particles[k].enabled

\* C4: Lose -> Start sets score and fruitsSlashed to 0; entering Lose and
\* staying in Lose leaves both as they were.
C4_ScoreReset ==
    [][/\ (state = loseState /\ state' = startState) =>
            score' = 0 /\ fruitsSlashed' = 0
       /\ (state' = loseState) =>
            score' = score /\ fruitsSlashed' = fruitsSlashed]_vars

\* Back on the start screen with the counters at 0, after a game in which
\* the cherry of slot 0 was slashed (it stopped after its first move) before
\* the donut of slot 1.
C4_Witness ==
    /\ state = startState
    /\ score = 0
    /\ fruitsSlashed = 0
    /\ nextFruitIndex = 2
    /\ fruits[0].type = cherryType
    /\ fruits[0].position.y = 535 * Sub
    /\ fruits[1].type = donutType

\* C8: Start -> Play changes the state and nothing else of the game: the
\* counters, the timers, slashing, both cursors and both pools stay.
C8_StartToPlay ==
    [][(state = startState /\ state' = playState) =>
        UNCHANGED <<score, fruitsSlashed, spawnElapsed, totalElapsed, slashing,
                    nextFruitIndex, nextParticleIndex, fruits, particles>>]_vars

\* A second game has just been started: the pools and cursors still hold
\* what the first game left.
C8_Witness ==
    /\ state = playState
    /\ pc = "update"
    /\ totalElapsed = 0
    /\ nextFruitIndex > 0
    /\ nextParticleIndex > 0

\* C5: a fruit that is enabled and lower than the screen height (540) at its
\* turn in the fruit loop is disabled by that step, and the step changes
\* neither score nor fruitsSlashed nor the state, also while the slash is
\* active with the pointer inside the fruit's circle.
C5_FallenFruit ==
    [][\A j \in FruitSlots :
        (AtTurn(j) /\ fruits[j].position.y > 540 * Sub) =>
            /\ ~fruits'[j].enabled
            /\ score' = score
            /\ fruitsSlashed' = fruitsSlashed
            /\ state' = state]_vars

\* The loop has just disabled a fruit that had fallen out, while the slash
\* was active and the pointer was inside the fruit's circle.
C5_Witness ==
    /\ pc = "scan"
    /\ scanIndex > 0
    /\ ~fruits[scanIndex - 1].enabled
    /\ fruits[scanIndex - 1].position.y > 540 * Sub
    /\ slashing
    /\ PointerInside(scanIndex - 1)
    /\ state = playState

\* One particle is appended at the cursor: the slot gets the pointer
\* position, elapsed 0 and enabled, no other slot changes, and the cursor
\* advances by one modulo 16.
OneParticleAppended ==
    /\ particles' = [particles EXCEPT ![nextParticleIndex] =
                        [position |-> mousePosition, elapsed |-> 0, enabled |-> TRUE]]
    /\ nextParticleIndex' = (nextParticleIndex + 1) % 16

NoParticleAppended ==
    /\ nextParticleIndex' = nextParticleIndex
    /\ \A k \in ParticleSlots : particles'[k].enabled => particles[k].enabled

\* C6 as stated: in a Play frame with the primary button held one particle
\* is appended at the cursor, and in a frame with the button not held none.
C6_WhileButtonHeld ==
    [][pc = "trail" =>
        IF mouseDown THEN OneParticleAppended ELSE NoParticleAppended]_vars

\* C6, amended: in a Play frame with slashing set (the button was pressed
\* during a Play frame and not released since) one particle is appended at
\* the cursor with the pointer position, elapsed 0 and enabled, and the
\* cursor advances by one modulo 16; in a Play frame with slashing clear
\* none is appended, and slashing is clear whenever the button is not held;
\* no other step of a frame appends a particle.
C6_WhileSlashing ==
    [][/\ pc = "trail" =>
            /\ IF slashing THEN OneParticleAppended ELSE NoParticleAppended
            /\ ~mouseDown => ~slashing
       /\ pc # "trail" => NoParticleAppended]_vars

\* The second frame of a slash: this frame's particle sits at slot 1, fresh,
\* behind the one of the frame before, which has aged one tick.
C6_Witness ==
    /\ pc = "age"
    /\ slashing
    /\ nextParticleIndex = 2
    /\ particles[1] = [position |-> mousePosition, elapsed |-> 0, enabled |-> TRUE]
    /\ particles[0].enabled
    /\ particles[0].elapsed = 1

\* C7: the fruit cursor stays in 0..47 and the particle cursor in 0..15, the
\* pools keep their 48 and 16 slots, and no more than 48 fruits and 16
\* particles are enabled.
C7_CursorsInRange ==
    /\ nextFruitIndex \in 0 .. 47
    /\ nextParticleIndex \in 0 .. 15
    /\ DOMAIN fruits = 0 .. 47
    /\ DOMAIN particles = 0 .. 15
    /\ Cardinality({j \in DOMAIN fruits : fruits[j].enabled}) <= 48
    /\ Cardinality({k \in DOMAIN particles : particles[k].enabled}) <= 16

\* Both cursors have wrapped: every fruit slot and every particle slot has
\* been written, and slot 0 of each has been written a second time.
C7_Witness ==
    /\ pc = "update"
    /\ nextFruitIndex = 1
    /\ \A j \in FruitSlots : fruits[j].position.y > 0
    /\ fruits[0].enabled
    /\ nextParticleIndex = 1
    /\ \A k \in ParticleSlots : particles[k].elapsed > 0

\* C9: a spawn with draw v in 1..100 gives the slot the type Apple if
\* v <= 50, Banana if 50 < v <= 75, Cherry if 75 < v <= 85 and Donut if
\* 85 < v <= 100; 50, 25, 10 and 15 of the 100 draws give Apple, Banana,
\* Cherry and Donut, and none leaves the type as it was.
C9_SpawnTypes ==
    [][(pc = "spawn" /\ nextFruitIndex' # nextFruitIndex) =>
        LET v == spawnValue'
            t == fruits'[nextFruitIndex].type
        IN  /\ v \in 1 .. 100
            /\ (t = appleType) <=> (v <= 50)
            /\ (t = bananaType) <=> (50 < v /\ v <= 75)
            /\ (t = cherryType) <=> (75 < v /\ v <= 85)
            /\ (t = donutType) <=> (85 < v /\ v <= 100)
            /\ Cardinality({w \in 1 .. 100 : SpawnType(w, "unassigned") = appleType}) = 50
            /\ Cardinality({w \in 1 .. 100 : SpawnType(w, "unassigned") = bananaType}) = 25
            /\ Cardinality({w \in 1 .. 100 : SpawnType(w, "unassigned") = cherryType}) = 10
            /\ Cardinality({w \in 1 .. 100 : SpawnType(w, "unassigned") = donutType}) = 15]_vars

\* The draw 100, the last one, has spawned a donut.
C9_Witness ==
    /\ pc = "scan"
    /\ spawnValue = 100
    /\ fruits[0].enabled
    /\ fruits[0].type = donutType

\* max(1.0 s - total / 30, 0.1 s), multiplied by 30, in ticks.
C10_Threshold(total) ==
    IF 30 * TicksPerSecond - total > 3 * TicksPerSecond
    THEN 30 * TicksPerSecond - total
    ELSE 3 * TicksPerSecond

\* C10: a Play frame first adds the frame time to totalElapsed and
\* spawnElapsed; then a fruit is spawned exactly if spawnElapsed >
\* max(1.0 - totalElapsed / 30, 0.1), and a spawn sets spawnElapsed to 0;
\* that threshold does not increase from frame to frame of a Play session
\* and lies between 0.1 s and 1.0 s.
C10_SpawnRule ==
    [][/\ (pc = "update" /\ pc' = "trail") =>
            /\ totalElapsed' = totalElapsed + frameTime'
            /\ spawnElapsed' = spawnElapsed + frameTime'
       /\ pc = "spawn" =>
            /\ (nextFruitIndex' # nextFruitIndex)
                   <=> (30 * spawnElapsed > C10_Threshold(totalElapsed))
            /\ spawnElapsed' = IF nextFruitIndex' # nextFruitIndex
                               THEN 0 ELSE spawnElapsed
       /\ (state = playState /\ state' = playState) =>
            C10_Threshold(totalElapsed') <= C10_Threshold(totalElapsed)
       /\ state' = playState =>
            /\ 3 * TicksPerSecond <= C10_Threshold(totalElapsed')
            /\ C10_Threshold(totalElapsed') <= 30 * TicksPerSecond]_vars

\* With the threshold at its floor, a frame of 5 ticks has spawned a fruit
\* after the frame of 5 ticks before it had not.
C10_Witness ==
    /\ pc = "scan"
    /\ scanIndex = 0
    /\ totalElapsed > 27 * TicksPerSecond
    /\ frameTime = 5
    /\ spawnElapsed = 0
    /\ nextFruitIndex = 2

\* C11: a spawn writes the slot at the fruit cursor: enabled, at the screen
\* height 540, horizontally in [240, 720], with horizontal velocity in
\* [-5, 5] and vertical velocity in [-20, -5]; the cursor advances by one
\* modulo 48 and no other slot changes.
C11_SpawnWrite ==
    [][(pc = "spawn" /\ nextFruitIndex' # nextFruitIndex) =>
        LET f == fruits'[nextFruitIndex]
        IN  /\ f.enabled
            /\ f.position.y = 540 * Sub
            /\ 240 * Sub <= f.position.x /\ f.position.x <= 720 * Sub
            /\ -5 * Sub <= f.velocity.x /\ f.velocity.x <= 5 * Sub
            /\ -20 * Sub <= f.velocity.y /\ f.velocity.y <= -5 * Sub
            /\ nextFruitIndex' = (nextFruitIndex + 1) % 48
            /\ \A j \in FruitSlots : j # nextFruitIndex => fruits'[j] = fruits[j]]_vars

\* The second spawn has written slot 1 with the right-most position, the
\* strongest strafe to the left and the strongest thrust, beside the fruit
\* of slot 0, which is on its way.
C11_Witness ==
    /\ pc = "scan"
    /\ scanIndex = 0
    /\ nextFruitIndex = 2
    /\ fruits[1].enabled
    /\ fruits[1].position = Vector2(720 * Sub, 540 * Sub)
    /\ fruits[1].velocity = Vector2(-5 * Sub, -20 * Sub)
    /\ fruits[0].enabled
    /\ fruits[0].position.y < 540 * Sub

\* C12: the enabled fruit at its turn in the fruit loop gets exactly one of
\* three outcomes, tested in this order: below the bottom bound it is
\* disabled where it is; else on a slash hit it is slashed and not moved;
\* else its position advances by its velocity and its vertical velocity
\* grows by 10/60 pixel.  No other slot is moved or enabled by the step, the
\* loop goes on behind the slot, and it ends only when no enabled slot is
\* left, so a disabled slot is never moved or slashed.
C12_FruitOutcome ==
    [][pc = "scan" =>
        /\ \A j \in FruitSlots : AtTurn(j) =>
            /\ scanIndex' = j + 1
            /\ fruits'[j].type = fruits[j].type
            /\ IF fruits[j].position.y > 540 * Sub
               THEN /\ ~fruits'[j].enabled
                    /\ fruits'[j].position = fruits[j].position
                    /\ fruits'[j].velocity = fruits[j].velocity
                    /\ UNCHANGED <<state, score, fruitsSlashed>>
               ELSE IF slashing /\ PointerInside(j)
               THEN /\ ~fruits'[j].enabled
                    /\ fruits'[j].position = fruits[j].position
                    /\ fruits'[j].velocity = fruits[j].velocity
                    /\ \/ state' = loseState /\ UNCHANGED <<score, fruitsSlashed>>
                       \/ /\ state' = playState
                          /\ fruitsSlashed' = fruitsSlashed + 1
                          /\ score' > score
               ELSE /\ fruits'[j].enabled
                    /\ fruits'[j].position.x = fruits[j].position.x + fruits[j].velocity.x
                    /\ fruits'[j].position.y = fruits[j].position.y + fruits[j].velocity.y
                    /\ fruits'[j].velocity.x = fruits[j].velocity.x
                    /\ 60 * (fruits'[j].velocity.y - fruits[j].velocity.y) = 10 * Sub
                    /\ UNCHANGED <<state, score, fruitsSlashed>>
        /\ \A k \in FruitSlots : ~AtTurn(k) =>
            /\ fruits'[k].position = fruits[k].position
            /\ fruits'[k].velocity = fruits[k].velocity
            /\ fruits'[k].type = fruits[k].type
            /\ fruits'[k].enabled => fruits[k].enabled
            /\ (fruits[k].enabled /\ ~fruits'[k].enabled) => state' = loseState
        /\ (~ \E j \in FruitSlots : AtTurn(j)) =>
            UNCHANGED <<state, fruits, score, fruitsSlashed>>]_vars

\* A frame has ended in which the slash was on with the pointer inside the
\* fruit of slot 0: moved frame after frame until it was below the screen,
\* it was disabled where it was and scored nothing.  The fruit of slot 1 was
\* slashed in the frame of its spawn, unmoved at the bottom edge, for the
\* only point.
C12_Witness ==
    /\ pc = "update"
    /\ state = playState
    /\ slashing
    /\ ~fruits[0].enabled
    /\ fruits[0].position.y > 540 * Sub
    /\ PointerInside(0)
    /\ ~fruits[1].enabled
    /\ fruits[1].position.y = 540 * Sub
    /\ PointerInside(1)
    /\ fruitsSlashed = 1
    /\ score = 1



\* C13: every enabled particle has an elapsed time of at most 0.1 s (6 ticks
\* of 1/60 s).  The aging of a Play frame adds the frame time to every
\* enabled particle, the one appended in this frame included, and leaves it
\* enabled exactly when the sum is at most 0.1 s; a disabled particle is left
\* alone.  So with a frame time above 0.1 s no particle is enabled after the
\* aging.
C13_ParticleAging ==
    [][/\ \A k \in ParticleSlots :
            particles'[k].enabled => particles'[k].elapsed <= 6
       /\ pc = "age" =>
            /\ \A k \in ParticleSlots :
                IF particles[k].enabled
                THEN /\ particles'[k].elapsed = particles[k].elapsed + frameTime
                     /\ particles'[k].enabled <=> (particles'[k].elapsed <= 6)
                     /\ particles'[k].position = particles[k].position
                ELSE particles'[k] = particles[k]
            /\ frameTime > 6 => \A k \in ParticleSlots : ~particles'[k].enabled]_vars

\* A Play frame of one second has ended with the slash on: the particle it
\* appended at the pointer is disabled with one second of age, and so are
\* the particles of the two short frames before it, which were enabled until
\* this frame.
C13_Witness ==
    /\ pc = "update"
    /\ state = playState
    /\ slashing
    /\ frameTime = 60
    /\ nextParticleIndex = 3
    /\ ~particles[2].enabled
    /\ particles[2].elapsed = 60
    /\ particles[2].position = mousePosition
    /\ ~particles[1].enabled
    /\ particles[1].elapsed = 61
    /\ ~particles[0].enabled
    /\ particles[0].elapsed = 62



\* The motion steps a fruit has made since its spawn, where every fruit is
\* spawned with thrust 5: each step adds 10/60 pixel to the vertical
\* velocity.
C14_Moves(j) == fruits[j].velocity.y + 5 * Sub

\* C14: a spawn that finds all 48 slots enabled overwrites the fruit that was
\* spawned first of the 48 (every other fruit has made fewer motion steps),
\* leaves 48 slots enabled, and changes neither score nor fruitsSlashed nor
\* the state.
C14_FullPoolSpawn ==
    [][(/\ pc = "spawn"
        /\ nextFruitIndex' # nextFruitIndex
        /\ \A j \in FruitSlots : fruits[j].enabled) =>
        /\ \E j \in FruitSlots :
            /\ fruits'[j] # fruits[j]
            /\ C14_Moves(j) = 48
            /\ \A k \in FruitSlots : k # j =>
                 fruits'[k] = fruits[k] /\ C14_Moves(k) < C14_Moves(j)
        /\ \A j \in FruitSlots : fruits'[j].enabled
        /\ UNCHANGED <<state, score, fruitsSlashed>>]_vars

\* The 50th spawn has overwritten slot 1: it holds a fresh fruit, slot 2 the
\* fruit that is now the oldest, with 47 motion steps, and slot 0 the newest
\* but one; all 48 slots are enabled and nothing was ever scored.
C14_Witness ==
    /\ pc = "scan"
    /\ scanIndex = 0
    /\ nextFruitIndex = 2
    /\ \A j \in FruitSlots : fruits[j].enabled
    /\ C14_Moves(1) = 0
    /\ C14_Moves(0) = 1
    /\ C14_Moves(2) = 47
    /\ state = playState
    /\ score = 0
    /\ fruitsSlashed = 0



\* The Play frames from the spawn of a fruit of thrust t to the frame that
\* disables it for being below the bottom bound: 12 * t + 1 motion steps
\* bring it back to the height of its spawn, one more below it.
C15_Flight(t) == 12 * t + 3

\* C15: while Play frames keep occurring no fruit stays enabled forever: a
\* fruit that is enabled when the run still has the frames of the longest
\* flight ahead is disabled later on, also when it rises above the top of
\* the screen and leaves the screen sideways.
C15_FruitsEnd ==
    \A j \in FruitSlots :
        (fruits[j].enabled /\ frame + C15_Flight(20) <= MaxLiveFrames + 1)
            ~> ~fruits[j].enabled

\* The first fruit, thrown with the strongest thrust, has been disabled
\* below the bottom bound after 242 motion steps, far to the right of the
\* screen, while the second one is enabled above the top of the screen.
C15_Witness ==
    /\ state = playState
    /\ ~fruits[0].enabled
    /\ fruits[0].position.y > 540 * Sub
    /\ fruits[0].position.x > 1024 * Sub
    /\ fruits[0].velocity.y = 242 - 20 * Sub
    /\ fruits[1].enabled
    /\ fruits[1].position.y < 0



\* No fruit and no particle is enabled, the slash is off and both timers
\* are 0.
C16_Clean ==
    /\ \A j \in FruitSlots : ~fruits[j].enabled
    /\ \A k \in ParticleSlots : ~particles[k].enabled
    /\ ~slashing
    /\ spawnElapsed = 0
    /\ totalElapsed = 0

\* C16: between two frames, whenever the state is not Play, no fruit and no
\* particle is enabled, slashing is off and both timers are 0; in state
\* Start, score and fruitsSlashed are 0 as well.  So the step from Start to
\* Play begins every Play session with zero score, zero slash count, empty
\* pools and zero timers, and leaves the two cursors where they are.
C16_OutsidePlay ==
    /\ []((pc = "update" /\ state # playState) =>
            /\ C16_Clean
            /\ state = startState => (score = 0 /\ fruitsSlashed = 0))
    /\ [][(state # playState /\ state' = playState) =>
            /\ state = startState
            /\ score' = 0
            /\ fruitsSlashed' = 0
            /\ C16_Clean'
            /\ UNCHANGED <<nextFruitIndex, nextParticleIndex>>]_vars

\* A second Play session has begun after a lost game in which a cherry was
\* slashed with the slash on: the counters are 0 again, the pools are empty,
\* the timers 0, the slash off, and the cursors are where the first game
\* left them.
C16_Witness ==
    /\ pc = "update"
    /\ state = playState
    /\ C16_Clean
    /\ score = 0
    /\ fruitsSlashed = 0
    /\ nextFruitIndex = 2
    /\ nextParticleIndex > 0
    /\ fruits[0].type = cherryType
    /\ fruits[1].type = donutType



\* C17: a frame makes at most one state transition.  A step from Lose goes
\* to Start at most, never on to Play; a frame that begins in Start or Lose
\* changes the state only on a press, the button up in the frame before and
\* down in this one, so the frame after Lose -> Start, with the button still
\* down, cannot leave Start, and the way from Lose to Play takes two presses
\* in two frames.  A frame that begins in Play changes the state only in its
\* fruit loop, and once that has made it Lose the state stays Lose to the
\* end of the frame.
C17_OneTransition ==
    [][/\ state = loseState => state' \in {loseState, startState}
       /\ state = startState => state' \in {startState, playState}
       /\ (pc = "update" /\ state' # state) => (~mouseDown /\ mouseDown')
       /\ (pc = "update" /\ state = playState) => state' = playState
       /\ (pc # "update" /\ state = loseState) =>
            (state' = loseState /\ pc' = "update" /\ mouseDown' = mouseDown)]_vars

\* The frame after the press that took the program from Lose to Start: the
\* button is still down and the state is still Start.
C17_Witness ==
    /\ pc = "update"
    /\ state = startState
    /\ mouseDown
    /\ frame = 5
    /\ fruits[0].type = donutType
    /\ nextFruitIndex = 1



\* The slots at or after slot i that the rest of the fruit loop finds on
\* screen and under the pointer of an active slash, for pool fs, pointer p
\* and slash flag s.
C18_Hit(fs, i, p, s) ==
    {j \in FruitSlots :
        /\ j >= i
        /\ fs[j].enabled
        /\ fs[j].position.y <= 540 * Sub
        /\ s
        /\ LET dx == p.x - (fs[j].position.x + 32 * Sub)
               dy == p.y - (fs[j].position.y + 32 * Sub)
           IN  dx * dx + dy * dy <= (32 * Sub) * (32 * Sub)}

\* Of these, the scoring fruits below the first donut.
C18_Counted(fs, i, p, s) ==
    {j \in C18_Hit(fs, i, p, s) :
        /\ fs[j].type # donutType
        /\ \A d \in C18_Hit(fs, i, p, s) : fs[d].type = donutType => j < d}

C18_Points(type) ==
    IF type = appleType THEN 1 ELSE IF type = bananaType THEN 3 ELSE 9

RECURSIVE C18_Sum(_, _)
C18_Sum(fs, S) ==
    IF S = {} THEN 0
    ELSE LET j == CHOOSE k \in S : TRUE
         IN  C18_Points(fs[j].type) + C18_Sum(fs, S \ {j})

\* C18: the fruit loop resolves the slots in ascending order, and of the
\* fruits under the pointer of an active slash a frame counts exactly the
\* scoring ones below the first donut: at every step of the loop, score and
\* fruitsSlashed plus what the fruits still to be counted are worth stay the
\* same, and nothing is left to count when the loop ends.  Once a donut is
\* slashed score and fruitsSlashed stay as they are to the end of the frame.
C18_AscendingOrder ==
    [][pc = "scan" =>
        LET now == C18_Counted(fruits, scanIndex, mousePosition, slashing)
            next == C18_Counted(fruits', scanIndex', mousePosition', slashing')
        IN  /\ pc' = "scan" => scanIndex' > scanIndex
            /\ fruitsSlashed' + Cardinality(next) = fruitsSlashed + Cardinality(now)
            /\ score' + C18_Sum(fruits', next) = score + C18_Sum(fruits, now)
            /\ pc' = "update" => now = {}
            /\ state = loseState => UNCHANGED <<score, fruitsSlashed>>
            /\ state' = loseState => next = {}]_vars

\* A frame has ended in which the pointer of the slash was inside three
\* fruits: the cherry of slot 0 was counted, the donut of slot 1 lost the
\* game, and the banana of slot 2, spawned in this frame, was not counted.
C18_Witness ==
    /\ pc = "update"
    /\ state = loseState
    /\ fruits[0].type = cherryType
    /\ fruits[1].type = donutType
    /\ fruits[2].type = bananaType
    /\ fruits[0].position.y = 540 * Sub - 59
    /\ fruits[1].position.y = 540 * Sub - 30
    /\ fruits[2].position.y = 540 * Sub
    /\ \A j \in 0 .. 2 : PointerInside(j)
    /\ score = 9
    /\ fruitsSlashed = 1



\* C19: always 0 <= fruitsSlashed <= score <= 9 * fruitsSlashed, and neither
\* score nor fruitsSlashed ever decreases but by the reset of both to 0 on
\* the step from Lose to Start.
C19_ScoreBounds ==
    /\ [](/\ 0 <= fruitsSlashed
          /\ fruitsSlashed <= score
          /\ score <= 9 * fruitsSlashed)
    /\ [][(score' < score \/ fruitsSlashed' < fruitsSlashed) =>
            /\ state = loseState
            /\ state' = startState
            /\ score' = 0
            /\ fruitsSlashed' = 0]_vars

\* A game is lost in which an apple, a banana and a cherry were slashed
\* before the donut: 13 points for 3 fruits.
C19_Witness ==
    /\ pc = "update"
    /\ state = loseState
    /\ fruitsSlashed = 3
    /\ score = 13
    /\ {fruits[j].type : j \in 0 .. 2} = {appleType, bananaType, cherryType}
    /\ fruits[3].type = donutType



\* The fruit of slot j is as its spawn left it: enabled, at the bottom edge
\* and on its way up.
C20_Fresh(j) ==
    /\ fruits[j].enabled
    /\ fruits[j].position.y = 540 * Sub
    /\ fruits[j].velocity.y < 0

\* A Play frame spawns at most one fruit, however long it is: the spawn test
\* runs once, after the aging and before the fruit loop, and a spawn writes
\* one slot, advances the fruit cursor by one and sets spawnElapsed to 0,
\* whatever it was above the threshold.
C20_OneSpawn ==
    /\ pc' = "spawn" => pc = "age"
    /\ pc = "spawn" =>
        /\ pc' = "scan"
        /\ Cardinality({j \in FruitSlots : fruits'[j] # fruits[j]}) <= 1
    /\ nextFruitIndex' # nextFruitIndex =>
        /\ pc = "spawn"
        /\ nextFruitIndex' = (nextFruitIndex + 1) % 48
        /\ fruits'[nextFruitIndex].enabled
        /\ fruits'[nextFruitIndex].position.y = 540 * Sub
        /\ fruits'[nextFruitIndex].velocity.y < 0
        /\ spawnElapsed' = 0

\* The fruit of slot j is moved or slashed by this step of the fruit loop.
C20_Processed(j) ==
    /\ AtTurn(j)
    /\ \/ /\ fruits'[j].enabled
          /\ fruits'[j].position.x = fruits[j].position.x + fruits[j].velocity.x
          /\ fruits'[j].position.y = fruits[j].position.y + fruits[j].velocity.y
       \/ /\ SlashHit(j)
          /\ ~fruits'[j].enabled

\* The fruit of slot j is disabled where it is by the slash of a donut in a
\* lower slot.
C20_Cleared(j) ==
    /\ \E d \in FruitSlots : d < j /\ SlashHit(d) /\ fruits[d].type = donutType
    /\ state' = loseState
    /\ ~fruits'[j].enabled
    /\ fruits'[j].position = fruits[j].position
    /\ fruits'[j].velocity = fruits[j].velocity
    /\ UNCHANGED <<score, fruitsSlashed>>

\* C20 as stated: a Play frame spawns at most one fruit, and the fruit
\* spawned in a frame is moved or slashed by the fruit loop of that frame.
C20_MovedOrSlashed ==
    [][/\ C20_OneSpawn
       /\ pc = "scan" =>
            /\ \A j \in FruitSlots :
                (C20_Fresh(j) /\ ~C20_Fresh(j)') => C20_Processed(j)
            /\ pc' = "update" => \A j \in FruitSlots : ~C20_Fresh(j)]_vars

\* C20, amended: a Play frame spawns at most one fruit, and the fruit spawned
\* in a frame is moved or slashed by the fruit loop of that frame unless the
\* loop slashes a donut in a lower slot first: then the new fruit is
\* disabled where it was spawned, neither moved nor counted.
C20_MovedSlashedOrCleared ==
    [][/\ C20_OneSpawn
       /\ pc = "scan" =>
            /\ \A j \in FruitSlots :
                (C20_Fresh(j) /\ ~C20_Fresh(j)') =>
                    (C20_Processed(j) \/ C20_Cleared(j))
            /\ pc' = "update" => \A j \in FruitSlots : ~C20_Fresh(j)]_vars

\* A stall of 1700 ticks has spawned one fruit, an apple in slot 1, and the
\* slash has hit the donut of slot 0 in the same frame: the game is lost,
\* the apple is disabled at the bottom edge with the velocity of its spawn,
\* under the pointer, and nothing is scored.
C20_Witness ==
    /\ pc = "update"
    /\ state = loseState
    /\ frameTime = 1700
    /\ nextFruitIndex = 2
    /\ fruits[0].type = donutType
    /\ fruits[1].type = appleType
    /\ ~fruits[1].enabled
    /\ fruits[1].position.y = 540 * Sub
    /\ fruits[1].velocity.y = -5 * Sub
    /\ PointerInside(1)
    /\ score = 0
    /\ fruitsSlashed = 0



====
